---- MODULE Spec2Model ----
(***************************************************************************)
(* Model of src/app.py: a Flask user store.  The in-memory list `users`,   *)
(* the persistence file users.json, the module's startup, and the handlers *)
(* get_users, create_user, update_user and delete_user with the helpers    *)
(* they call.                                                              *)
(*                                                                         *)
(* Strings are sequences of one-character strings, so that strip(),        *)
(* lower(), len() and the "@" membership test are computed as Python       *)
(* computes them.  JSON values carry their type tag, because the code      *)
(* applies string operations to values of any JSON type.                   *)
(***************************************************************************)
EXTENDS Integers, Sequences, FiniteSets, TLC

\* users : the module-level list `users` (src/app.py:53)
\* file  : the content of users.json (src/app.py:8)
\* now   : what datetime.utcnow() returns to the next request
\* log   : one entry per request handled so far: the request, its response
\*         and the ids in the list as the request found it
\* prev  : the list, the file and the time as the last request found them
\* (log and prev are history, not program state)
VARIABLES users, file, now, log, prev

\* The same program with requests handled by concurrent threads (app.run
\* serves each request in its own thread), which needs the identity of the
\* list and dict objects:
\* objs    : the dict objects ever created, by object number
\* lists   : the list objects ever created, each a sequence of object numbers
\* g       : the list object the global name `users` is bound to
\* disk    : users.json, with the length of its text
\* clock   : what datetime.utcnow() returns next
\* started : how many requests have been accepted
\* th      : per thread, the handler's position and local variables
VARIABLES objs, lists, g, disk, clock, started, th

\* The program from its start, serving list requests:
\* listed : the GET /users request served last and its response
\*          (history, not program state)
VARIABLES listed

svars == <<users, file, now, log, prev>>

cvars == <<objs, lists, g, disk, clock, started, th>>

lvars == <<listed>>

vars ==
  <<users, file, now, log, prev, objs, lists, g, disk, clock, started, th, listed>>

\* ------------------------------- bounds ---------------------------------
\* Requests are handled at times 1..MaxClock, one per tick.
MaxClock == 3

\* The threads accept at most MaxStarted requests between them.
MaxStarted == 2

\* ------------------------------ strings ---------------------------------
\* "^" stands for a lone UTF-16 surrogate (JSON "\ud800"), which json.loads
\* accepts and the utf-8 file encoder of save_data rejects.
Surrogate == "^"

LowerChar(c) ==
  CASE c = "A" -> "a"
    [] c = "B" -> "b"
    [] c = "C" -> "c"
    [] c = "M" -> "m"
    [] c = "N" -> "n"
    [] c = "O" -> "o"
    [] c = "P" -> "p"
    [] c = "X" -> "x"
    [] OTHER -> c

\* str.lower()
Lower(s) == [i \in 1..Len(s) |-> LowerChar(s[i])]

IsSpace(c) == c = " "

RECURSIVE LStrip(_)
LStrip(s) == IF s # <<>> /\ IsSpace(Head(s)) THEN LStrip(Tail(s)) ELSE s

RECURSIVE RStrip(_)
RStrip(s) ==
  IF s # <<>> /\ IsSpace(s[Len(s)]) THEN RStrip(SubSeq(s, 1, Len(s) - 1)) ELSE s

\* str.strip()
Strip(s) == RStrip(LStrip(s))

\* "@" in x, for x a str (substring of length one) or a list (element)
HasAt(s) == \E i \in 1..Len(s) : s[i] = "@"

\* ------------------------------ JSON values -----------------------------
\* t: "absent" (key missing or null: dict.get gives None), "str", "num", "list"
JAbsent == [t |-> "absent", s |-> <<>>, n |-> 0]
JStr(s) == [t |-> "str", s |-> s, n |-> 0]
JNum(n) == [t |-> "num", s |-> <<>>, n |-> n]
JList(s) == [t |-> "list", s |-> s, n |-> 0]

\* Python truthiness of a JSON value
Truthy(v) ==
  CASE v.t = "absent" -> FALSE
    [] v.t = "str" -> v.s # <<>>
    [] v.t = "num" -> v.n # 0
    [] v.t = "list" -> v.s # <<>>

\* ------------------------------ seed data -------------------------------
Aman == <<"A", "m", "a", "n">>
Priya == <<"P", "r", "i", "y", "a">>
AmanEmail == <<"a", "m", "a", "n", "@", "e", "x", "a", "m", "p", "l", "e", ".", "c", "o", "m">>
PriyaEmail == <<"p", "r", "i", "y", "a", "@", "e", "x", "a", "m", "p", "l", "e", ".", "c", "o", "m">>

\* updated_at of a record that was never updated (the key is missing)
NoStamp == -1

User(id, name, email, created) ==
  [id |-> id, name |-> name, email |-> email, created_at |-> created, updated_at |-> NoStamp]

SampleUsers == <<User(1, Aman, AmanEmail, 0), User(2, Priya, PriyaEmail, 0)>>

\* ------------------------------ payloads --------------------------------
\* request.get_json(force=True, silent=True):
\*   kind "none": no body or a body that does not parse (None);
\*   kind "obj" : a JSON object; name/email are its values under those keys,
\*                extra says that it has some other key as well;
\*   kind "list": a JSON array; extra says that it is non-empty.
Payload(kind, name, email, extra) ==
  [kind |-> kind, name |-> name, email |-> email, extra |-> extra]

NoPayload == Payload("none", JAbsent, JAbsent, FALSE)

\* line 144 as `if payload is None`: an empty object or array passes
PayloadTruthy_notnone(p) == p.kind # "none"

\* Python truthiness of the parsed body
PayloadTruthy(p) ==
  CASE p.kind = "none" -> FALSE
    [] p.kind = "obj" -> p.name.t # "absent" \/ p.email.t # "absent" \/ p.extra
    [] p.kind = "list" -> p.extra

\* ------------------------------ helpers ---------------------------------
Ids(us) == {us[i].id : i \in 1..Len(us)}

SetMax(S) == CHOOSE m \in S : \A x \in S : x <= m

\* next_id as a record count: one more than the number of users
next_id_count(us) == Len(us) + 1

\* next_id without the increment
next_id_noinc(us) == IF us = <<>> THEN 1 ELSE SetMax(Ids(us))

next_id(us) == IF us = <<>> THEN 1 ELSE SetMax(Ids(us)) + 1

\* index of the first record with this id, 0 for None
find_user(us, user_id) ==
  IF \E i \in 1..Len(us) : us[i].id = user_id
  THEN CHOOSE i \in 1..Len(us) :
         us[i].id = user_id /\ \A j \in 1..(i - 1) : us[j].id # user_id
  ELSE 0

Valid == [ok |-> TRUE, err |-> "", exc |-> FALSE]
Invalid(msg) == [ok |-> FALSE, err |-> msg, exc |-> FALSE]
Raises == [ok |-> FALSE, err |-> "", exc |-> TRUE]

\* line 46 with len(name) in place of len(name.strip())
NameOk_unstripped(name) == Truthy(name) /\ name.t = "str" /\ Len(name.s) >= 2

\* lines 46 and 152: a name that is accepted
NameOk(name) == Truthy(name) /\ name.t = "str" /\ Len(Strip(name.s)) >= 2

\* email check of line 48, evaluated left to right:
\*   not email  or  "@" not in email  or  len(email.strip()) < 5
EmailCheck(email) ==
  IF ~Truthy(email) THEN "bad"
  ELSE IF email.t = "num" THEN "raise"
  ELSE IF ~HasAt(email.s) THEN "bad"
  ELSE IF email.t # "str" THEN "raise"
  ELSE IF Len(Strip(email.s)) < 5 THEN "bad"
  ELSE "ok"

validate_user_payload(p, require_email) ==
  IF p.kind # "obj" THEN Invalid("Payload must be a JSON object.")
  ELSE IF ~NameOk(p.name) THEN Invalid("Field 'name' is required (min 2 chars).")
  ELSE IF require_email /\ EmailCheck(p.email) = "raise" THEN Raises
  ELSE IF require_email /\ EmailCheck(p.email) = "bad"
       THEN Invalid("Field 'email' is required and must look like an email.")
  ELSE Valid

\* line 124 without .lower()
EmailExists_exact(us, email) ==
  \E i \in 1..Len(us) : us[i].email = email

\* line 124: any(u for u in users if u.get("email","").lower() == payload["email"].lower())
EmailExists(us, email) ==
  \E i \in 1..Len(us) : Lower(us[i].email) = Lower(email)

\* line 160: the same test over the records whose id is not user_id
EmailExistsElsewhere(us, user_id, email) ==
  \E i \in 1..Len(us) : us[i].id # user_id /\ Lower(us[i].email) = Lower(email)

\* ------------------------------ persistence -----------------------------
Encodable(s) == \A i \in 1..Len(s) : s[i] # Surrogate

RecordEncodable(u) == Encodable(u.name) /\ Encodable(u.email)

RECURSIVE EncodablePrefix(_)
EncodablePrefix(us) ==
  IF us = <<>> \/ ~RecordEncodable(Head(us)) THEN <<>>
  ELSE <<Head(us)>> \o EncodablePrefix(Tail(us))

\* The file after save_data(us): opened with "w" (truncated) and written
\* record by record; the utf-8 encoder raises on a lone surrogate, leaving
\* the text written so far, which is not valid JSON.
save_data(us) ==
  IF \A i \in 1..Len(us) : RecordEncodable(us[i])
  THEN [ok |-> TRUE, data |-> us]
  ELSE [ok |-> FALSE, data |-> EncodablePrefix(us)]

\* ------------------------------ responses -------------------------------
Reply(status, error) == [status |-> status, error |-> error]

Request(op, id, payload) == [op |-> op, id |-> id, payload |-> payload]

Result(us, f, r) == [users |-> us, file |-> f, resp |-> r]

\* ------------------------------ handlers --------------------------------
\* lines 127-132 with the name stored as sent
new_user_raw(us, p, t) == User(next_id(us), p.name.s, Strip(p.email.s), t)

\* lines 127-132
new_user(us, p, t) == User(next_id(us), Strip(p.name.s), Strip(p.email.s), t)

\* POST /users with users.insert(0, new_user) at line 133
CreateOutcome_insert(us, f, t, p) ==
  LET v == validate_user_payload(p, TRUE)
      appended == <<new_user(us, p, t)>> \o us
      saved == save_data(appended)
  IN  IF v.exc THEN Result(us, f, Reply(500, ""))
      ELSE IF ~v.ok THEN Result(us, f, Reply(400, v.err))
      ELSE IF EmailExists(us, p.email.s)
           THEN Result(us, f, Reply(409, "User with this email already exists."))
      ELSE IF ~saved.ok THEN Result(appended, saved, Reply(500, ""))
      ELSE Result(appended, saved, Reply(201, ""))

\* POST /users.  The outcome of the handler run to completion on the store
\* (us, f) at time t.
CreateOutcome(us, f, t, p) ==
  LET v == validate_user_payload(p, TRUE)
      appended == Append(us, new_user(us, p, t))
      saved == save_data(appended)
  IN  IF v.exc THEN Result(us, f, Reply(500, ""))
      ELSE IF ~v.ok THEN Result(us, f, Reply(400, v.err))
      ELSE IF EmailExists(us, p.email.s)
           THEN Result(us, f, Reply(409, "User with this email already exists."))
      ELSE IF ~saved.ok THEN Result(appended, saved, Reply(500, ""))
      ELSE Result(appended, saved, Reply(201, ""))

\* Lines 151-154: the name is applied to the record as soon as it is accepted.
NameStep(u, name) ==
  IF ~Truthy(name) THEN [u |-> u, stop |-> FALSE, resp |-> Reply(0, "")]
  ELSE IF ~NameOk(name) THEN [u |-> u, stop |-> TRUE, resp |-> Reply(400, "Invalid name")]
  ELSE [u |-> [u EXCEPT !.name = Strip(name.s)], stop |-> FALSE, resp |-> Reply(0, "")]

\* Lines 156-162 with the email stored as sent
EmailStep_raw(us, user_id, u, email) ==
  IF ~Truthy(email) THEN [u |-> u, stop |-> FALSE, resp |-> Reply(0, "")]
  ELSE IF EmailCheck(email) = "raise" THEN [u |-> u, stop |-> TRUE, resp |-> Reply(500, "")]
  ELSE IF EmailCheck(email) = "bad"
       THEN [u |-> u, stop |-> TRUE, resp |-> Reply(400, "Invalid email")]
  ELSE IF EmailExistsElsewhere(us, user_id, email.s)
       THEN [u |-> u, stop |-> TRUE,
             resp |-> Reply(409, "Another user with this email exists.")]
  ELSE [u |-> [u EXCEPT !.email = email.s], stop |-> FALSE, resp |-> Reply(0, "")]

\* Lines 156-162, on the record u that NameStep left.
EmailStep(us, user_id, u, email) ==
  IF ~Truthy(email) THEN [u |-> u, stop |-> FALSE, resp |-> Reply(0, "")]
  ELSE IF EmailCheck(email) = "raise" THEN [u |-> u, stop |-> TRUE, resp |-> Reply(500, "")]
  ELSE IF EmailCheck(email) = "bad"
       THEN [u |-> u, stop |-> TRUE, resp |-> Reply(400, "Invalid email")]
  ELSE IF EmailExistsElsewhere(us, user_id, email.s)
       THEN [u |-> u, stop |-> TRUE,
             resp |-> Reply(409, "Another user with this email exists.")]
  ELSE [u |-> [u EXCEPT !.email = Strip(email.s)], stop |-> FALSE, resp |-> Reply(0, "")]

\* PUT /users/<user_id>
UpdateOutcome(us, f, t, user_id, p) ==
  LET i == find_user(us, user_id)
      n == NameStep(us[i], p.name)
      us1 == [us EXCEPT ![i] = n.u]
      e == EmailStep(us1, user_id, n.u, p.email)
      us2 == [us EXCEPT ![i] = e.u]
      us3 == [us EXCEPT ![i] = [e.u EXCEPT !.updated_at = t]]
      saved == save_data(us3)
  IN  IF i = 0 THEN Result(us, f, Reply(404, "User not found"))
      ELSE IF ~PayloadTruthy(p) THEN Result(us, f, Reply(400, "No JSON payload provided"))
      ELSE IF p.kind # "obj" THEN Result(us, f, Reply(500, ""))
      ELSE IF n.stop THEN Result(us, f, n.resp)
      ELSE IF e.stop THEN Result(us2, f, e.resp)
      ELSE IF ~saved.ok THEN Result(us3, saved, Reply(500, ""))
      ELSE Result(us3, saved, Reply(200, ""))

\* line 174: users = [u for u in users if u["id"] != user_id]
Without(us, user_id) == SelectSeq(us, LAMBDA u : u.id # user_id)

\* DELETE /users/<user_id> without line 175
DeleteOutcome_unsaved(us, f, user_id) ==
  IF find_user(us, user_id) = 0 THEN Result(us, f, Reply(404, "User not found"))
  ELSE Result(Without(us, user_id), f, Reply(200, ""))

\* DELETE /users/<user_id>
DeleteOutcome(us, f, user_id) ==
  LET rest == Without(us, user_id)
      saved == save_data(rest)
  IN  IF find_user(us, user_id) = 0 THEN Result(us, f, Reply(404, "User not found"))
      ELSE IF ~saved.ok THEN Result(rest, saved, Reply(500, ""))
      ELSE Result(rest, saved, Reply(200, ""))

\* ------------------------------ request inputs --------------------------
Bo == <<"B", "o">>
BoEmail == <<"b", "o", "@", "x", ".", "c", "o">>
AmanEmailUpper == <<"A", "M", "A", "N", "@", "e", "x", "a", "m", "p", "l", "e", ".", "c", "o", "m">>

Obj(name, email) == Payload("obj", name, email, FALSE)

PadBo == Obj(JStr(<<" ", "B", "o", " ">>), JStr(BoEmail))
PadAman == Obj(JStr(Aman), JStr(<<" ">> \o AmanEmail))
UpperAman == Obj(JStr(Aman), JStr(AmanEmailUpper))
SameAman == Obj(JStr(Aman), JStr(AmanEmail))
ShortName == Obj(JStr(<<" ", "B", " ">>), JStr(BoEmail))
ShortEmail == Obj(JStr(Bo), JStr(<<"b", "@", "x", " ", " ">>))
NumEmail == Obj(JStr(Bo), JNum(7))
NumName == Obj(JNum(7), JStr(BoEmail))
BadChar == Obj(JStr(<<"B", "o", Surrogate>>), JStr(BoEmail))
BothEmpty == Obj(JStr(<<>>), JStr(<<>>))
NameOnly == Obj(JStr(Bo), JAbsent)
EmptyObj == Obj(JAbsent, JAbsent)

CreatePayloads ==
  { PadBo, PadAman, UpperAman, ShortName, ShortEmail, NumEmail, NumName, BadChar,
    EmptyObj, NoPayload }

UpdatePayloads ==
  { PadAman, UpperAman, SameAman, ShortEmail, NumEmail, BothEmpty, NameOnly,
    EmptyObj, NoPayload }

\* the ids in use and the first one that is free
UserIds(us) == 1..next_id(us)

\* ------------------------------ actions ---------------------------------
Entry(rq, r) == [req |-> rq, resp |-> r, ids |-> Ids(users)]

Found == [users |-> users, file |-> file, now |-> now]

create_user ==
  /\ now <= MaxClock
  /\ \E p \in CreatePayloads :
       LET r == CreateOutcome(users, file, now, p)
       IN  /\ users' = r.users
           /\ file' = r.file
           /\ log' = Append(log, Entry(Request("create", 0, p), r.resp))
  /\ now' = now + 1
  /\ prev' = Found
  /\ UNCHANGED <<cvars, lvars>>

update_user ==
  /\ now <= MaxClock
  /\ \E user_id \in UserIds(users), p \in UpdatePayloads :
       LET r == UpdateOutcome(users, file, now, user_id, p)
       IN  /\ users' = r.users
           /\ file' = r.file
           /\ log' = Append(log, Entry(Request("update", user_id, p), r.resp))
  /\ now' = now + 1
  /\ prev' = Found
  /\ UNCHANGED <<cvars, lvars>>

delete_user ==
  /\ now <= MaxClock
  /\ \E user_id \in UserIds(users) :
       LET r == DeleteOutcome(users, file, user_id)
       IN  /\ users' = r.users
           /\ file' = r.file
           /\ log' = Append(log, Entry(Request("delete", user_id, NoPayload), r.resp))
  /\ now' = now + 1
  /\ prev' = Found
  /\ UNCHANGED <<cvars, lvars>>

\* --------------------------- startup and listing ------------------------
\* line 21 outside the try block: whatever could be read of the file
load_data_raw(f) == f.data

\* Lines 15-23.  A file that is missing (17-18) and one whose text does not
\* parse (22-23) both have ok = FALSE and both give [].
load_data(f) == IF ~f.ok THEN <<>> ELSE f.data

\* lines 53-61: the list and the file once the module has been executed
StartOutcome(f) ==
  LET loaded == load_data(f)
  IN  IF loaded = <<>>
      THEN [users |-> SampleUsers, file |-> save_data(SampleUsers)]
      ELSE [users |-> loaded, file |-> f]

\* A query parameter: missing, the text of an integer, or some other text.
ArgAbsent == [t |-> "absent", n |-> 0]
ArgInt(n) == [t |-> "int", n |-> n]
ArgJunk == [t |-> "junk", n |-> 0]

\* int(request.args.get(key, default)); ok = FALSE for ValueError
ParseInt(a, default) ==
  CASE a.t = "absent" -> [ok |-> TRUE, n |-> default]
    [] a.t = "int" -> [ok |-> TRUE, n |-> a.n]
    [] a.t = "junk" -> [ok |-> FALSE, n |-> 0]

\* q in s, for strings
Contains(s, q) ==
  \E i \in 0..(Len(s) - Len(q)) : SubSeq(s, i + 1, i + Len(q)) = q

\* lines 88-90
Filtered(us, q) ==
  LET qq == Lower(Strip(q))
  IN  IF qq = <<>> THEN us
      ELSE SelectSeq(us, LAMBDA u : Contains(Lower(u.name), qq) \/ Contains(Lower(u.email), qq))

\* Where a slice bound i falls in a list of length n: a negative bound
\* counts from the end, and every bound is clamped to 0..n.
SliceBound(i, n) ==
  IF i < 0 THEN (IF i + n < 0 THEN 0 ELSE i + n)
  ELSE IF i > n THEN n ELSE i

\* s[start:end]
PySlice(s, start, end) ==
  SubSeq(s, SliceBound(start, Len(s)) + 1, SliceBound(end, Len(s)))

\* meta.limit: the number, or "all"
All == [all |-> TRUE, n |-> 0]
Number(n) == [all |-> FALSE, n |-> n]

\* line 104: limit or "all"
MetaLimit(limit) == IF limit # 0 THEN Number(limit) ELSE All

Listing(status, error, total, page, limit, data) ==
  [status |-> status, error |-> error, total |-> total, page |-> page,
   limit |-> limit, data |-> data]

\* GET /users
ListOutcome(us, q, page, limit) ==
  LET p == ParseInt(page, 1)
      l == ParseInt(limit, 0)
      filtered == Filtered(us, q)
      start == (p.n - 1) * l.n
      end == start + l.n
      page_data == IF l.n > 0 THEN PySlice(filtered, start, end) ELSE filtered
  IN  IF ~p.ok \/ ~l.ok
      THEN Listing(400, "page and limit must be integers", 0, 0, All, <<>>)
      ELSE Listing(200, "", Len(filtered), p.n, MetaLimit(l.n), page_data)

\* The users.json files a start can find hold up to MaxStored records.
MaxStored == 5

\* Page and limit parameters range over -MaxPage..MaxPage and
\* -MaxLimit..MaxLimit.
MaxPage == 3

MaxLimit == 2

\* bo@x.co, boo@x.co, ... : the email of the (k-2)-th user created
BoEmails(k) == <<"b">> \o [i \in 1..(k - 2) |-> "o"] \o <<"@", "x", ".", "c", "o">>

\* The k-th record a run of the program can have stored: the two sample
\* users, then users created by POST /users.
Member(k) == IF k <= 2 THEN SampleUsers[k] ELSE User(k, Bo, BoEmails(k), k - 2)

\* The lists earlier runs can have saved: some of these records deleted,
\* the others in the order of their ids.
Stored ==
  { SelectSeq([k \in 1..MaxStored |-> Member(k)], LAMBDA u : u.id \in S) :
      S \in SUBSET (1..MaxStored) }

\* users.json as a start finds it: missing (ok FALSE, no data), cut short by
\* a failed save (ok FALSE), or as a completed save left it.
StartFiles == {[ok |-> b, data |-> s] : b \in BOOLEAN, s \in Stored}

QueryTexts == {<<>>, <<" ", "B", "O", " ">>, <<"@", "e", "x">>, <<"z", "z">>}

PageArgs == {ArgAbsent, ArgJunk} \cup {ArgInt(n) : n \in (0 - MaxPage)..MaxPage}

LimitArgs == {ArgAbsent, ArgJunk} \cup {ArgInt(n) : n \in (0 - MaxLimit)..MaxLimit}

NoListing ==
  [q |-> <<>>, page |-> ArgAbsent, limit |-> ArgAbsent,
   resp |-> Listing(0, "", 0, 0, All, <<>>)]

\* the module has been executed: requests are served
Booted == now >= 1

\* lines 52-61, at time 0
startup ==
  /\ now = 0
  /\ LET r == StartOutcome(file)
     IN  /\ users' = r.users
         /\ file' = r.file
  /\ now' = 1
  /\ prev' = Found
  /\ UNCHANGED <<log, cvars, lvars>>

\* GET /users changes nothing of the program's state, so every response the
\* program can give is given to the first list request served.
get_users ==
  /\ Booted
  /\ listed = NoListing
  /\ \E q \in QueryTexts, page \in PageArgs, limit \in LimitArgs :
       listed' = [q |-> q, page |-> page, limit |-> limit,
                  resp |-> ListOutcome(users, q, page, limit)]
  /\ UNCHANGED <<svars, cvars>>

\* ------------------------------ threads ---------------------------------
Threads == {1, 2}

\* the list object that startup binds to `users`: the two sample dicts
SampleList == <<1, 2>>

\* the records of a list object, in order
ListValue(l) == [i \in 1..Len(lists[l]) |-> objs[lists[l][i]]]

\* the records of the list `users` is bound to
GlobalUsers == ListValue(g)

\* Length of the text json.dump(us, f, indent=2) writes: "[]" for no record,
\* else 102 characters of layout per record (one-digit id, 26-character
\* created_at) plus the name, the email and 48 for an updated_at entry.
RECURSIVE TextLen(_)
TextLen(us) ==
  IF us = <<>> THEN 2
  ELSE TextLen(Tail(us)) + 102 + Len(Head(us).name) + Len(Head(us).email)
         + (IF Head(us).updated_at = NoStamp THEN 0 ELSE 48)

\* A file that holds exactly what one save_data wrote
Written(w) == [ok |-> w.ok, data |-> w.data, len |-> TextLen(w.data)]

\* open(DATA_FILE, "w") truncates the file
Truncated == [ok |-> FALSE, data |-> <<>>, len |-> 0]

\* Closing flushes the text at offset 0 of the file as it is by then: a longer
\* text that another thread wrote meanwhile keeps its tail.
Flush(w, d) ==
  IF d.len <= TextLen(w.data) \/ (d.ok /\ w.ok /\ d.data = w.data) THEN Written(w)
  ELSE [ok |-> FALSE, data |-> w.data, len |-> d.len]

NoAnswer == [op |-> "none", id |-> 0, status |-> 0]

\* A thread between requests; answer is what it returned last, and acked
\* (history) collects the answers it has returned.
Idle(answer) ==
  [pc |-> "idle", op |-> "none", id |-> 0, payload |-> NoPayload, user |-> 0,
   rec |-> User(0, <<>>, <<>>, 0), rest |-> <<>>, arg |-> 0,
   buf |-> [ok |-> TRUE, data |-> <<>>], status |-> 0, answer |-> answer,
   acked |-> {}]

At(t, pc) == th[t].pc = pc

Goto(t, pc) == th' = [th EXCEPT ![t].pc = pc]

\* The answer of thread t's request: the id is the one in the URL, or the
\* one of the record in the body of a create's response (line 135).
Answer(t, status) ==
  [op |-> th[t].op, id |-> IF th[t].op = "create" THEN th[t].rec.id ELSE th[t].id,
   status |-> status]

\* return jsonify(...), status
Return(t, status) ==
  th' = [th EXCEPT ![t] = [Idle(Answer(t, status)) EXCEPT
                             !.acked = th[t].acked \cup {Answer(t, status)}]]

ConcCreatePayloads == {PadBo}

ConcUpdatePayloads == {PadBo, NameOnly}

\* A thread picks up a request; nothing in the code makes it wait for the
\* requests that other threads are handling.
Accept(t) ==
  /\ At(t, "idle")
  /\ started < MaxStarted
  /\ started' = started + 1
  /\ \/ \E p \in ConcCreatePayloads :
          th' = [th EXCEPT ![t].pc = "c_check", ![t].op = "create", ![t].payload = p]
     \/ \E user_id \in UserIds(GlobalUsers), p \in ConcUpdatePayloads :
          th' = [th EXCEPT ![t].pc = "u_find", ![t].op = "update", ![t].id = user_id,
                           ![t].payload = p]
     \/ \E user_id \in UserIds(GlobalUsers) :
          th' = [th EXCEPT ![t].pc = "d_find", ![t].op = "delete", ![t].id = user_id]
  /\ UNCHANGED <<svars, lvars>>
  /\ UNCHANGED <<objs, lists, g, disk, clock>>

\* lines 118-125: validation and the duplicate test
CreateCheck(t) ==
  /\ At(t, "c_check")
  /\ LET p == th[t].payload
         v == validate_user_payload(p, TRUE)
     IN  IF v.exc THEN Return(t, 500)
         ELSE IF ~v.ok THEN Return(t, 400)
         ELSE IF EmailExists(GlobalUsers, p.email.s) THEN Return(t, 409)
         ELSE Goto(t, "c_build")
  /\ UNCHANGED <<svars, lvars>>
  /\ UNCHANGED <<objs, lists, g, disk, clock, started>>

\* lines 127-132: the new dict, with next_id of the list as it is now
CreateBuild(t) ==
  /\ At(t, "c_build")
  /\ th' = [th EXCEPT ![t].pc = "c_append",
                      ![t].rec = new_user(GlobalUsers, th[t].payload, clock)]
  /\ clock' = clock + 1
  /\ UNCHANGED <<svars, lvars>>
  /\ UNCHANGED <<objs, lists, g, disk, started>>

\* line 133: users.append(new_user)
CreateAppend(t) ==
  /\ At(t, "c_append")
  /\ objs' = Append(objs, th[t].rec)
  /\ lists' = [lists EXCEPT ![g] = Append(lists[g], Len(objs) + 1)]
  /\ th' = [th EXCEPT ![t].pc = "s_open", ![t].status = 201]
  /\ UNCHANGED <<svars, lvars>>
  /\ UNCHANGED <<g, disk, clock, started>>

\* lines 139-145: find_user, then the payload test
UpdateFind(t) ==
  /\ At(t, "u_find")
  /\ LET i == find_user(GlobalUsers, th[t].id)
         p == th[t].payload
     IN  IF i = 0 THEN Return(t, 404)
         ELSE IF ~PayloadTruthy(p) THEN Return(t, 400)
         ELSE IF p.kind # "obj" THEN Return(t, 500)
         ELSE th' = [th EXCEPT ![t].pc = "u_name", ![t].user = lists[g][i]]
  /\ UNCHANGED <<svars, lvars>>
  /\ UNCHANGED <<objs, lists, g, disk, clock, started>>

\* lines 151-154, on the dict that find_user returned
UpdateName(t) ==
  /\ At(t, "u_name")
  /\ LET n == NameStep(objs[th[t].user], th[t].payload.name)
     IN  /\ objs' = [objs EXCEPT ![th[t].user] = n.u]
         /\ IF n.stop THEN Return(t, n.resp.status) ELSE Goto(t, "u_email")
  /\ UNCHANGED <<svars, lvars>>
  /\ UNCHANGED <<lists, g, disk, clock, started>>

\* lines 156-161: the email tests, the duplicate test over the list as it is now
UpdateEmailCheck(t) ==
  /\ At(t, "u_email")
  /\ LET e == EmailStep(GlobalUsers, th[t].id, objs[th[t].user], th[t].payload.email)
     IN  IF e.stop THEN Return(t, e.resp.status)
         ELSE IF Truthy(th[t].payload.email) THEN Goto(t, "u_set_email")
         ELSE Goto(t, "u_stamp")
  /\ UNCHANGED <<svars, lvars>>
  /\ UNCHANGED <<objs, lists, g, disk, clock, started>>

\* line 162: user["email"] = email.strip()
UpdateEmailSet(t) ==
  /\ At(t, "u_set_email")
  /\ objs' = [objs EXCEPT ![th[t].user].email = Strip(th[t].payload.email.s)]
  /\ Goto(t, "u_stamp")
  /\ UNCHANGED <<svars, lvars>>
  /\ UNCHANGED <<lists, g, disk, clock, started>>

\* line 164: user["updated_at"] = str(datetime.utcnow())
UpdateStamp(t) ==
  /\ At(t, "u_stamp")
  /\ objs' = [objs EXCEPT ![th[t].user].updated_at = clock]
  /\ clock' = clock + 1
  /\ th' = [th EXCEPT ![t].pc = "s_open", ![t].status = 200]
  /\ UNCHANGED <<svars, lvars>>
  /\ UNCHANGED <<lists, g, disk, started>>

\* lines 171-173
DeleteFind(t) ==
  /\ At(t, "d_find")
  /\ IF find_user(GlobalUsers, th[t].id) = 0 THEN Return(t, 404) ELSE Goto(t, "d_filter")
  /\ UNCHANGED <<svars, lvars>>
  /\ UNCHANGED <<objs, lists, g, disk, clock, started>>

\* line 174, right-hand side: a new list of the dicts with another id
DeleteFilter(t) ==
  /\ At(t, "d_filter")
  /\ th' = [th EXCEPT ![t].pc = "d_bind",
                      ![t].rest = SelectSeq(lists[g], LAMBDA o : objs[o].id # th[t].id)]
  /\ UNCHANGED <<svars, lvars>>
  /\ UNCHANGED <<objs, lists, g, disk, clock, started>>

\* line 174, the assignment: `users` names the new list
DeleteBind(t) ==
  /\ At(t, "d_bind")
  /\ lists' = Append(lists, th[t].rest)
  /\ g' = Len(lists) + 1
  /\ th' = [th EXCEPT ![t].pc = "s_open", ![t].status = 200]
  /\ UNCHANGED <<svars, lvars>>
  /\ UNCHANGED <<objs, disk, clock, started>>

\* save_data(users), line 27: the argument is the list `users` names at the call
SaveOpen(t) ==
  /\ At(t, "s_open")
  /\ disk' = Truncated
  /\ th' = [th EXCEPT ![t].pc = "s_dump", ![t].arg = g]
  /\ UNCHANGED <<svars, lvars>>
  /\ UNCHANGED <<objs, lists, g, clock, started>>

\* line 28: json.dump serialises the list into the file object's buffer
SaveDump(t) ==
  /\ At(t, "s_dump")
  /\ th' = [th EXCEPT ![t].pc = "s_close", ![t].buf = save_data(ListValue(th[t].arg))]
  /\ UNCHANGED <<svars, lvars>>
  /\ UNCHANGED <<objs, lists, g, disk, clock, started>>

\* leaving the with block flushes the buffer; then the handler returns
SaveClose(t) ==
  /\ At(t, "s_close")
  /\ disk' = Flush(th[t].buf, disk)
  /\ Return(t, IF th[t].buf.ok THEN th[t].status ELSE 500)
  /\ UNCHANGED <<svars, lvars>>
  /\ UNCHANGED <<objs, lists, g, clock, started>>

NextConc ==
  \E t \in Threads :
    \/ Accept(t)
    \/ CreateCheck(t) \/ CreateBuild(t) \/ CreateAppend(t)
    \/ UpdateFind(t) \/ UpdateName(t) \/ UpdateEmailCheck(t) \/ UpdateEmailSet(t)
    \/ UpdateStamp(t)
    \/ DeleteFind(t) \/ DeleteFilter(t) \/ DeleteBind(t)
    \/ SaveOpen(t) \/ SaveDump(t) \/ SaveClose(t)

\* The variables that a specification does not use stay as Unused leaves them.
NoFile == [ok |-> FALSE, data |-> <<>>]

UnusedThreads ==
  /\ objs = <<>>
  /\ lists = <<>>
  /\ g = 0
  /\ disk = Truncated
  /\ clock = 0
  /\ started = 0
  /\ th = <<>>

UnusedLog ==
  /\ users = <<>>
  /\ file = NoFile
  /\ now = 0
  /\ log = <<>>
  /\ prev = [users |-> <<>>, file |-> NoFile, now |-> 0]

UnusedListing == listed = NoListing

\* Module start with no users.json: the sample users are created and saved.
Init ==
  /\ users = SampleUsers
  /\ file = save_data(SampleUsers)
  /\ now = 1
  /\ log = <<>>
  /\ prev = [users |-> <<>>, file |-> NoFile, now |-> 0]
  /\ UnusedThreads
  /\ UnusedListing

\* The same start, for the threads
InitConc ==
  /\ objs = SampleUsers
  /\ lists = <<SampleList>>
  /\ g = 1
  /\ disk = Written(save_data(SampleUsers))
  /\ clock = 1
  /\ started = 0
  /\ th = [t \in Threads |-> Idle(NoAnswer)]
  /\ UnusedLog
  /\ UnusedListing

\* Before line 53 runs, with any users.json an earlier run can have left
InitStart ==
  /\ users = <<>>
  /\ file \in StartFiles
  /\ now = 0
  /\ log = <<>>
  /\ prev = [users |-> <<>>, file |-> NoFile, now |-> 0]
  /\ UnusedThreads
  /\ UnusedListing

Next == create_user \/ update_user \/ delete_user

Spec == Init /\ [][Next]_vars

SpecConc == InitConc /\ [][NextConc]_vars

NextStart == startup \/ get_users

SpecStart == InitStart /\ [][NextStart]_vars

\* ------------------------------ history ---------------------------------
Handled == log # <<>>

\* the request handled last and its response
Last == log[Len(log)]

\* the ids in the list `users` as the k-th request left it
IdsAfter(k) == IF k < Len(log) THEN log[k + 1].ids ELSE Ids(users)

Answered(op, status) == Handled /\ Last.req.op = op /\ Last.resp.status = status

NoTwoAlike(us) ==
  \A i, j \in 1..Len(us) : i # j => Lower(us[i].email) # Lower(us[j].email)

\* ------------------------------ claims ----------------------------------
\* C1: after any sequence of create, update and delete requests from the
\* seeded collection, no two records have emails that are equal under
\* case-insensitive comparison.
C1_EmailsUnique == NoTwoAlike(users)

\* C2: after any sequence of create, update and delete requests from the
\* seeded collection, every id is a positive integer and no two records
\* share an id.
C2_IdsPositiveUnique ==
  /\ \A i \in 1..Len(users) : users[i].id \in Nat /\ users[i].id >= 1
  /\ \A i, j \in 1..Len(users) : i # j => users[i].id # users[j].id

\* a create succeeded after some record had been deleted
C2_Witness ==
  /\ Answered("create", 201)
  /\ \E k \in 1..Len(log) : log[k].req.op = "delete" /\ log[k].resp.status = 200
  /\ Len(users) >= 2

\* C4: after every successful create, update or delete the file holds the
\* in-memory collection: same records, same field values, same order.
C4_FileMatchesMemory ==
  (Handled /\ Last.resp.status \in {200, 201}) => (file.ok /\ file.data = users)

\* a successful request that found the file behind the list in memory
C4_Witness ==
  /\ Handled
  /\ Last.resp.status \in {200, 201}
  /\ prev.file.data # prev.users
  /\ users # prev.users

\* the k-th request was a delete that removed the record with the highest id
DeletedHighest(k) ==
  /\ log[k].req.op = "delete"
  /\ log[k].resp.status = 200
  /\ log[k].req.id = SetMax(log[k].ids)

\* the id the claim expects of the next record created after the k-th request
IdAfterDelete(k) ==
  IF IdsAfter(k) = {} THEN 1 ELSE SetMax(IdsAfter(k)) + 1

CreatedId == users[Len(users)].id

\* C5 as stated: if the record with the highest id is deleted and a create
\* then succeeds with no other create in between, the created id is the
\* maximum id remaining after that delete plus 1 (1 if nothing remained).
C5_Original ==
  Answered("create", 201) =>
    \A k \in 1..(Len(log) - 1) :
      (DeletedHighest(k) /\ \A m \in (k + 1)..(Len(log) - 1) : log[m].req.op # "create")
        => CreatedId = IdAfterDelete(k)

\* C5 amended: if the record with the highest id is deleted and a create then
\* succeeds with no other create and no other delete that removes a record
\* in between, the created id is the maximum id remaining after that delete
\* plus 1 (1 if nothing remained); it is the freed id when the remaining
\* maximum is one less.
C5_ReusesFreedId ==
  Answered("create", 201) =>
    \A k \in 1..(Len(log) - 1) :
      (/\ DeletedHighest(k)
       /\ \A m \in (k + 1)..(Len(log) - 1) :
            /\ log[m].req.op # "create"
            /\ log[m].req.op = "delete" => log[m].resp.status = 404)
        => /\ CreatedId = IdAfterDelete(k)
           /\ (IdsAfter(k) # {} /\ SetMax(IdsAfter(k)) = log[k].req.id - 1)
                => CreatedId = log[k].req.id

\* the highest id was deleted, another request came, then a create got the freed id
C5_Witness ==
  /\ Answered("create", 201)
  /\ Len(log) = 3
  /\ DeletedHighest(1)
  /\ log[2].req.op = "update"
  /\ CreatedId = log[1].req.id

\* C6: a create whose payload passes validation and whose email equals,
\* ignoring letter case, the email of an existing record is answered 409 and
\* leaves the collection and the file unchanged.
C6_DuplicateRejected ==
  (/\ Handled
   /\ Last.req.op = "create"
   /\ validate_user_payload(Last.req.payload, TRUE).ok
   /\ \E i \in 1..Len(prev.users) :
        Lower(prev.users[i].email) = Lower(Last.req.payload.email.s))
    => /\ Last.resp.status = 409
       /\ users = prev.users
       /\ file = prev.file

\* a create was refused for an email that differs from the stored one in case only
C6_Witness ==
  /\ Answered("create", 409)
  /\ \E i \in 1..Len(users) :
       /\ users[i].email # Last.req.payload.email.s
       /\ Lower(users[i].email) = Lower(Last.req.payload.email.s)

\* what C7 calls an invalid create payload
NameInvalid(name) == name.t # "str" \/ Len(Strip(name.s)) < 2

EmailInvalid(email) == email.t # "str" \/ ~HasAt(email.s) \/ Len(Strip(email.s)) < 5

CreateInvalid(p) == p.kind # "obj" \/ NameInvalid(p.name) \/ EmailInvalid(p.email)

\* C7: every invalid create payload (not an object; name missing, not a
\* string or shorter than 2 after trimming; email missing, without "@" or
\* shorter than 5 after trimming, whatever its JSON type) is answered 400
\* with an {"error": message} body, the collection and the file unchanged.
C7_InvalidCreateIs400 ==
  (Handled /\ Last.req.op = "create" /\ CreateInvalid(Last.req.payload))
    => /\ Last.resp.status = 400
       /\ Last.resp.error # ""
       /\ users = prev.users
       /\ file = prev.file

\* C8: a successful create appends exactly one record at the end, with id 1
\* for an empty collection and the maximum id + 1 otherwise, the trimmed
\* name and email, a created_at and no updated_at; the records that were
\* there are unchanged and keep their order.
C8_CreateAppends ==
  Answered("create", 201) =>
    /\ Len(users) = Len(prev.users) + 1
    /\ SubSeq(users, 1, Len(prev.users)) = prev.users
    /\ CreatedId = (IF prev.users = <<>> THEN 1 ELSE SetMax(Ids(prev.users)) + 1)
    /\ users[Len(users)].name = Strip(Last.req.payload.name.s)
    /\ users[Len(users)].email = Strip(Last.req.payload.email.s)
    /\ users[Len(users)].created_at = prev.now
    /\ users[Len(users)].updated_at = NoStamp

\* a create with a padded name succeeded on a collection that was not empty
C8_Witness ==
  /\ Answered("create", 201)
  /\ prev.users # <<>>
  /\ Last.req.payload.name.s # Strip(Last.req.payload.name.s)

\* C9: a successful update of record r changes only r's updated_at (always
\* stamped) and those of r's name and email that the payload supplies with a
\* truthy value (set to the trimmed value); an omitted or falsy field, r's id
\* and created_at, and every other record are unchanged.
C9_UpdateFrame ==
  Answered("update", 200) =>
    LET i == CHOOSE k \in 1..Len(prev.users) : prev.users[k].id = Last.req.id
        old == prev.users[i]
        p == Last.req.payload
    IN  /\ Len(users) = Len(prev.users)
        /\ \A k \in 1..Len(users) : k # i => users[k] = prev.users[k]
        /\ users[i].id = old.id
        /\ users[i].created_at = old.created_at
        /\ users[i].updated_at = prev.now
        /\ users[i].name = (IF Truthy(p.name) THEN Strip(p.name.s) ELSE old.name)
        /\ users[i].email = (IF Truthy(p.email) THEN Strip(p.email.s) ELSE old.email)

\* an update with an empty name and email succeeded on a record updated before
C9_Witness ==
  /\ Answered("update", 200)
  /\ Last.req.payload = BothEmpty
  /\ \E k \in 1..Len(prev.users) :
       prev.users[k].id = Last.req.id /\ prev.users[k].updated_at # NoStamp

\* the request handled last was an update of a record carrying that record's
\* own name and its own email in some letter case
OwnValuesUpdate ==
  /\ Handled
  /\ Last.req.op = "update"
  /\ \E i \in 1..Len(prev.users) :
       /\ prev.users[i].id = Last.req.id
       /\ Last.req.payload.name = JStr(prev.users[i].name)
       /\ Last.req.payload.email.t = "str"
       /\ Lower(Last.req.payload.email.s) = Lower(prev.users[i].email)

\* C10: updating a record with a payload carrying that record's own current
\* name and email (in any letter case for the email) succeeds and is not
\* rejected as a duplicate: it is never answered 409.
C10_NotRejectedAsDuplicate == OwnValuesUpdate => Last.resp.status # 409

\* C3: when mutating requests overlap in time, each request's
\* check-mutate-persist sequence runs in mutual exclusion with the others, so
\* that every interleaving keeps ids unique and emails unique ignoring case.
C3_InterleavingsKeepUnique ==
  /\ \A i, j \in 1..Len(GlobalUsers) : i # j => GlobalUsers[i].id # GlobalUsers[j].id
  /\ NoTwoAlike(GlobalUsers)

\* the request handled last addressed an id that was in the list it found
Addressed == Last.req.id \in Ids(prev.users)

\* a body that is missing or does not parse (None), or the empty object
EmptyPayload(p) == p.kind = "none" \/ p = EmptyObj

\* C11: an update addressed to an id that is not in the collection is
\* answered 404 whatever the payload; an update addressed to an existing id
\* with a payload that is absent, unparseable or empty is answered 400; in
\* both cases no record field and no file content changes.
C11_UpdateRefused ==
  (Handled /\ Last.req.op = "update") =>
    /\ ~Addressed =>
         /\ Last.resp.status = 404
         /\ users = prev.users
         /\ file = prev.file
    /\ (Addressed /\ EmptyPayload(Last.req.payload)) =>
         /\ Last.resp.status = 400
         /\ users = prev.users
         /\ file = prev.file

\* an empty object sent to an existing record was refused, after an update
\* with a usable payload had been refused for its unknown id
C11_Witness ==
  /\ Answered("update", 400)
  /\ Addressed
  /\ Last.req.payload = EmptyObj
  /\ \E k \in 1..(Len(log) - 1) :
       /\ log[k].req.op = "update"
       /\ log[k].resp.status = 404
       /\ PayloadTruthy(log[k].req.payload)

\* the list us with its i-th record taken out
RemoveAt(us, i) == SubSeq(us, 1, i - 1) \o SubSeq(us, i + 1, Len(us))

\* C12: a delete addressed to an id that is not in the collection is
\* answered 404 and changes neither the collection nor the file; a delete
\* addressed to an existing id removes exactly the record with that id,
\* leaves the other records unchanged and in their order, and persists the
\* result: the file then holds the collection.
C12_DeleteRemovesAndPersists ==
  (Handled /\ Last.req.op = "delete") =>
    /\ ~Addressed =>
         /\ Last.resp.status = 404
         /\ users = prev.users
         /\ file = prev.file
    /\ Addressed =>
         /\ \E i \in 1..Len(prev.users) :
              prev.users[i].id = Last.req.id /\ users = RemoveAt(prev.users, i)
         /\ file.ok
         /\ file.data = users

\* a list request has been served and answered 200
Listed == listed # NoListing /\ listed.resp.status = 200

\* the page and the limit of the list request served last, as integers
AskedPage == ParseInt(listed.page, 1).n

AskedLimit == ParseInt(listed.limit, 0).n

\* the records that match the query of the list request served last
Matching == Filtered(users, listed.q)

\* the records of s at the 0-based positions start .. start + n - 1 that
\* exist in s, in order
Window(s, start, n) ==
  SubSeq(s, (IF start < 0 THEN 0 ELSE start) + 1,
            IF start + n > Len(s) THEN Len(s) ELSE start + n)

\* C13: for every integer page and every limit > 0, the list holds exactly
\* the records of the filtered sequence at the 0-based positions
\* (page-1)*limit up to but excluding (page-1)*limit + limit that exist, in
\* order (none when the range lies outside the sequence); meta.total is
\* always the length of the filtered sequence.
C13_PageWindow ==
  Listed =>
    /\ listed.resp.total = Len(Matching)
    /\ AskedLimit > 0 =>
         listed.resp.data = Window(Matching, (AskedPage - 1) * AskedLimit, AskedLimit)

\* C14: for every integer limit <= 0, zero and negative alike, and when
\* limit is absent, the list holds all the filtered records whatever the
\* page is, and the metadata reports the limit as "all".
C14_NoLimitIsAll ==
  (Listed /\ AskedLimit <= 0) =>
    /\ listed.resp.data = Matching
    /\ listed.resp.limit = All

\* C15: in every reachable state every stored record has a name of at
\* least 2 characters and an email that contains "@" and has at least 5
\* characters, both measured after trimming, the stored values being the
\* trimmed ones; no create or update stores a value violating this.
C15_StoredValuesValid ==
  \A i \in 1..Len(users) :
    /\ Len(Strip(users[i].name)) >= 2
    /\ HasAt(users[i].email)
    /\ Len(Strip(users[i].email)) >= 5
    /\ users[i].name = Strip(users[i].name)
    /\ users[i].email = Strip(users[i].email)

\* an update with a padded email was applied after a create with a name too
\* short once trimmed and an update with an email too short once trimmed
\* had been refused
C15_Witness ==
  /\ Answered("update", 200)
  /\ Last.req.payload = PadAman
  /\ \E k \in 1..(Len(log) - 1) :
       log[k].req.op = "create" /\ log[k].req.payload = ShortName /\ log[k].resp.status = 400
  /\ \E k \in 1..(Len(log) - 1) :
       log[k].req.op = "update" /\ log[k].req.payload = ShortEmail /\ log[k].resp.status = 400

\* C16: at process start, if users.json is absent, does not parse or holds
\* an empty collection, the in-memory collection becomes exactly the two
\* sample records (ids 1 and 2) and the file is written with them at once;
\* otherwise the collection is exactly what the file held.  In all cases
\* the collection is non-empty once startup has completed.
C16_StartupSeedsOrLoads ==
  Booted =>
    /\ (~prev.file.ok \/ prev.file.data = <<>>) =>
         /\ users = SampleUsers
         /\ Ids(users) = {1, 2}
         /\ file.ok
         /\ file.data = SampleUsers
    /\ (prev.file.ok /\ prev.file.data # <<>>) => users = prev.file.data
    /\ users # <<>>

\* a start found a file cut short after some records and replaced it by the
\* sample users
C16_Witness ==
  /\ Booted
  /\ ~prev.file.ok
  /\ prev.file.data # <<>>
  /\ users = SampleUsers
  /\ file.ok

\* the collection a start has after the collection us was saved
Reloaded(us) == StartOutcome(save_data(us)).users

\* C17: for every collection reachable by create, update and delete
\* requests, the one with every record deleted included, saving it and then
\* loading it as the startup does gives the identical sequence of records.
C17_RoundTrip == Reloaded(users) = users

\* C18: every request answered 400, 404 or 409 leaves the in-memory
\* collection exactly as it was before the request, also when an update
\* supplies a valid name with an invalid or duplicate email; so the
\* collection still equals the file content after it, if it did before.
C18_ErrorsChangeNothing ==
  (Handled /\ Last.resp.status \in {400, 404, 409}) =>
    /\ users = prev.users
    /\ (prev.file.ok /\ prev.file.data = prev.users) => (file.ok /\ file.data = users)

\* C20: starting from the seeded collection, after any sequence of create,
\* update and delete requests handled one at a time, the collection is
\* ordered by strictly increasing id: each record's id is greater than the
\* id of every record before it.
C20_AscendingIds ==
  \A i, j \in 1..Len(users) : i < j => users[i].id < users[j].id

\* a create succeeded after the first record had been deleted and another
\* had been updated
C20_Witness ==
  /\ Answered("create", 201)
  /\ Len(users) >= 2
  /\ \E k \in 1..(Len(log) - 1) :
       log[k].req.op = "delete" /\ log[k].req.id = 1 /\ log[k].resp.status = 200
  /\ \E k \in 1..(Len(log) - 1) :
       log[k].req.op = "update" /\ log[k].resp.status = 200

\* the answers returned so far, by any thread
Acked == UNION {th[t].acked : t \in Threads}

\* a create that was answered 201, with no delete of the created id answered
\* 200 and none in progress
Standing(a) ==
  /\ a.op = "create"
  /\ a.status = 201
  /\ ~\E d \in Acked : d.op = "delete" /\ d.id = a.id /\ d.status = 200
  /\ ~\E t \in Threads : th[t].op = "delete" /\ th[t].id = a.id

\* no request is being handled: every save that was begun has completed
Quiet == \A t \in Threads : At(t, "idle")

\* C19: under any interleaving of concurrent requests, a record whose create
\* was answered 201 stays in the in-memory collection, and is in the file
\* once all in-flight saves have completed, until a delete addressed to its
\* id succeeds; a concurrent delete of another id or a concurrent save never
\* loses it.
C19_AcknowledgedCreateStays ==
  \A a \in Acked :
    Standing(a) =>
      /\ a.id \in Ids(GlobalUsers)
      /\ Quiet => (disk.ok /\ a.id \in Ids(disk.data))

====
